---- MODULE Spec2Model ----
(***************************************************************************)
(* Model of glkernel::sample::poisson_square and poisson_square_map        *)
(* (source/glkernel/include/glkernel/sample.hpp).                          *)
(*                                                                         *)
(* Coordinates are exact rationals on a lattice: the integer v stands for  *)
(* the coordinate v / Q, so the unit square [0, 1) is 0 .. Q-1 and the     *)
(* input min_dist is the integer numerator of min_dist / Q.  Squared       *)
(* distances are in units of 1 / Q^2.  A random draw (radius, angle) is    *)
(* the lattice offset r * (cos a, sin a) it produces.                      *)
(***************************************************************************)
EXTENDS Integers, Sequences, FiniteSets, TLC

VARIABLES kernelSize, min_dist, num_probes, kernel, k, actives, occupancy,
          pc, result, writes, iters,
          generator, pick_it, probes, nearest, task, task_gen

\* the locals of one loop iteration and the random generator
locals == <<generator, pick_it, probes, nearest, task, task_gen>>

vars == <<kernelSize, min_dist, num_probes, kernel, k, actives, occupancy,
          pc, result, writes, iters, locals>>

---------------------------------------------------------------------------
(* Bounds of the model *)

HalfQ == 7

MaxN == 3

MaxProbes == 2

\* number of generator positions told apart
GenStates == 2

Q == 2 * HalfQ

\* min_dist values (numerators over Q) the caller may pass: one well below
\* 1/2, one just below 1/2, one between 1/2 and sqrt(1/2), one above
\* sqrt(1/2), and the out-of-contract value min_dist = 1
MinDists == {2, Q - 8, Q - 5, Q - 2, Q}

\* min_dist values that are also run with more than one probe per iteration
ProbeDists == {2}

\* the calls: any capacity with at most one probe per iteration, and several
\* probes per iteration while capacity plus probes stay within MaxN + 1
Inputs ==
    { in \in [kernelSize : 1 .. MaxN, min_dist : MinDists, num_probes : 0 .. MaxProbes] :
        \/ in.num_probes <= 1
        \/ in.min_dist \in ProbeDists /\ in.kernelSize + in.num_probes <= MaxN + 1 }

---------------------------------------------------------------------------
(* Values *)

\* m_none: static_cast<size_t>(-1)
m_none == -1

\* content of a kernel slot the sampler has not written
Unwritten == <<>>

\* the grid object before its construction
NoGrid == [m_side |-> 0, m_dist2 |-> 0, m_mask |-> <<>>]

Points == (0 .. Q - 1) \X (0 .. Q - 1)

Abs(v) == IF v < 0 THEN -v ELSE v

\* glm::dot(delta, delta)
Dot(d) == d[1] * d[1] + d[2] * d[2]

\* static_cast<int>(a / b) for b > 0: truncation toward zero
Trunc(a, b) == IF a >= 0 THEN a \div b ELSE -((-a) \div b)

---------------------------------------------------------------------------
(* poisson_square_map *)

\* std::ceil(sqrt(2.0) / min_dist): the least s with s * d >= sqrt(2) * Q
Side(d) == CHOOSE s \in 1 .. 2 * Q : /\ s * s * d * d >= 2 * Q * Q
                                    /\ \A t \in 1 .. s - 1 : t * t * d * d < 2 * Q * Q

\* m_dist2 initialised with min_dist instead of its square
Dist2Unsquared(d) == d

Dist2(d) == d * d

NewMap(d) ==
    [m_side |-> Side(d), m_dist2 |-> Dist2(d),
     m_mask |-> [o \in 0 .. Side(d) * Side(d) - 1 |-> m_none]]

\* static_cast<int>(point.x * s)
CellOf(v, s) == Trunc(v * s, Q)


\* mask() that leaves the column out of the offset
MaskOffsetRowOnly(point, s) == CellOf(point[2], s) * s

\* the offset o computed by mask()
MaskOffset(point, s) == CellOf(point[2], s) * s + CellOf(point[1], s)

\* the tiling by the remainder alone, i % s, which is negative for i < 0
TiledRemainder(i, s) == IF i < 0 THEN -((-i) % s) ELSE i % s

\* i < 0 ? i + s : i % s
Tiled(i, s) == IF i < 0 THEN i + s ELSE i % s

\* the four corner cells of the 5x5 window, skipped by masked()
IsCorner(i, j, x, y) == (j = y - 2 \/ j = y + 2) /\ (i = x - 2 \/ i = x + 2)

\* masking_probe after the +-1.0 shifts
Unwrapped(q, i, j, s) ==
    << IF i < 0 THEN q[1] - Q ELSE IF i >= s THEN q[1] + Q ELSE q[1],
       IF j < 0 THEN q[2] - Q ELSE IF j >= s THEN q[2] + Q ELSE q[2] >>

\* masked(): the cells of the 5x5 window that are looked at
Window(x, y) ==
    { c \in (x - 2 .. x + 2) \X (y - 2 .. y + 2) : ~IsCorner(c[1], c[2], x, y) }

\* cell c1 is visited before cell c2 (for j ... for i ...)
Before(c1, c2) == c1[2] < c2[2] \/ (c1[2] = c2[2] /\ c1[1] < c2[1])

\* the read m_mask[j_tiled * s + i_tiled] is outside the array
OobAt(c, occ) ==
    Tiled(c[2], occ.m_side) * occ.m_side + Tiled(c[1], occ.m_side) \notin DOMAIN occ.m_mask

\* the cell holds a point whose unwrapped image is within min_dist of the probe
HitAt(c, probe, kern, occ) ==
    \E o \in {Tiled(c[2], occ.m_side) * occ.m_side + Tiled(c[1], occ.m_side)} :
        /\ o \in DOMAIN occ.m_mask
        /\ occ.m_mask[o] # m_none
        /\ \E mp \in {Unwrapped(kern[occ.m_mask[o]], c[1], c[2], occ.m_side)} :
              Dot(<<mp[1] - probe[1], mp[2] - probe[2]>>) < occ.m_dist2

\* masked(): "oob" is a read of m_mask outside its bounds before any hit
Masked(probe, kern, occ) ==
    LET w == Window(CellOf(probe[1], occ.m_side), CellOf(probe[2], occ.m_side))
    IN  IF \E c \in w : OobAt(c, occ) /\ \A c2 \in w : Before(c2, c) => ~HitAt(c2, probe, kern, occ)
        THEN "oob"
        ELSE IF \E c \in w : HitAt(c, probe, kern, occ)
        THEN "true"
        ELSE "false"

---------------------------------------------------------------------------
(* poisson_square *)

\* a seed at the origin of the square instead of its centre
SeedAtOrigin == <<0, 0>>

\* glm::tvec2<T, P>(0.5, 0.5)
SeedPoint == <<Q \div 2, Q \div 2>>

\* spacing of the drawn offsets: every lattice offset when min_dist > 1/2
\* (a handful of points fit), every second one otherwise
Stride(d) == IF 2 * d > Q THEN 1 ELSE 2

\* the values of r * (cos a, sin a) for r in [min_dist, 2 min_dist)
Offsets(d) ==
    { o \in (-2 * d .. 2 * d) \X (-2 * d .. 2 * d) :
        /\ d * d <= Dot(o) /\ Dot(o) < 4 * d * d
        /\ o[1] % Stride(d) = 0 /\ o[2] % Stride(d) = 0 }

\* the wrap without its else-branch: a probe past the right or top edge stays there
WrapCoordLowOnly(v) == IF v < 0 THEN v + Q ELSE v

\* within square? (tilable)
WrapCoord(v) == IF v < 0 THEN v + Q ELSE IF v >= Q THEN v - Q ELSE v

MakeProbe(active, off) ==
    <<WrapCoord(active[1] + off[1]), WrapCoord(active[2] + off[2])>>

\* the tuple stored in probes[i]
Tuple(probe, masked, delta) ==
    [probe |-> probe, masked |-> masked,
     dist |-> IF masked = "true" THEN -1 ELSE Dot(delta)]

ProbeEntry(active, off, kern, occ) ==
    LET probe == MakeProbe(active, off)
    IN  Tuple(probe, Masked(probe, kern, occ),
              <<Abs(active[1] - probe[1]), Abs(active[2] - probe[2])>>)

\* pick nearest probe from sample set
RECURSIVE Nearest(_, _, _)
Nearest(ps, i, acc) ==
    IF i > Len(ps) THEN acc
    ELSE LET new_dist == ps[i].dist
         IN  IF new_dist < 0 \/ acc.nearest_dist < new_dist
             THEN Nearest(ps, i + 1, acc)
             ELSE Nearest(ps, i + 1,
                          [nearest_found |-> TRUE, nearest_dist |-> new_dist,
                           nearest_probe |-> ps[i].probe])

\* glm::vec2 nearest_probe; nearest_dist = 4 * min_dist * min_dist; nearest_found = false
NoNearest == [nearest_found |-> FALSE, nearest_dist |-> 0, nearest_probe |-> Unwritten]

\* a selection that keeps the first of the probes with the smallest distance
NearestOfFirstWins(ps, d) ==
    LET ok == { i \in DOMAIN ps : ps[i].dist >= 0 /\ ps[i].dist <= 4 * d * d }
    IN  IF ok = {}
        THEN [nearest_found |-> FALSE, nearest_dist |-> 4 * d * d,
              nearest_probe |-> Unwritten]
        ELSE LET i == CHOOSE i \in ok : \A j \in ok :
                          \/ ps[i].dist < ps[j].dist
                          \/ ps[i].dist = ps[j].dist /\ i <= j
             IN  [nearest_found |-> TRUE, nearest_dist |-> ps[i].dist,
                  nearest_probe |-> ps[i].probe]

NearestOf(ps, d) ==
    Nearest(ps, 1, [nearest_found |-> FALSE, nearest_dist |-> 4 * d * d,
                    nearest_probe |-> Unwritten])

\* the loop bound off by one: k < kernel.size()
LoopCondOffByOne(acts, kk, n) == acts # <<>> /\ kk < n

\* while (!actives.empty() && k < kernel.size() - 1)
LoopCond(acts, kk, n) == acts # <<>> /\ kk < n - 1

\* the erase condition with "more than one element": size() > 1 || k > 1
EraseCondMoreThanOne(acts, kk) == Len(acts) > 1 \/ kk > 1

\* (actives.size() > 0 || k > 1)
EraseCond(acts, kk) == Len(acts) > 0 \/ kk > 1

\* an exhausted round that leaves the active list as it is
EraseNothing(acts, pos) == acts

\* an exhausted round that moves the picked index to the back of the list
EraseAndRequeue(acts, pos) ==
    SubSeq(acts, 1, pos - 1) \o SubSeq(acts, pos + 1, Len(acts)) \o <<acts[pos]>>

\* actives.erase(pick_it)
EraseAt(acts, pos) == SubSeq(acts, 1, pos - 1) \o SubSeq(acts, pos + 1, Len(acts))

\* kernel[k++] = nearest_probe: the slot of the previous point is written again
WriteSlotPostIncrement(kk) == kk

\* the slot written by kernel[++k] = nearest_probe
WriteSlot(kk) == kk + 1

Init ==
    /\ \E in \in Inputs :
         /\ kernelSize = in.kernelSize
         /\ min_dist = in.min_dist
         /\ num_probes = in.num_probes
    /\ kernel = [i \in 0 .. kernelSize - 1 |-> Unwritten]
    /\ k = 0
    /\ actives = <<>>
    /\ occupancy = NoGrid
    /\ pc = "start"
    /\ result = 0
    /\ writes = <<>>
    /\ iters = 0
    /\ generator = 0
    /\ pick_it = 0
    /\ probes = <<>>
    /\ nearest = NoNearest
    /\ task = <<>>
    /\ task_gen = <<>>

\* lines 123-131: build the grid, place the seed, mask it
Seed ==
    /\ pc = "start"
    /\ LET occ == NewMap(min_dist)
           o == MaskOffset(SeedPoint, occ.m_side)
       IN  /\ kernel' = [kernel EXCEPT ![0] = SeedPoint]
           /\ writes' = Append(writes, 0)
           /\ k' = 0
           /\ actives' = <<0>>
           /\ IF o \in DOMAIN occ.m_mask
              THEN /\ occupancy' = [occ EXCEPT !.m_mask[o] = 0]
                   /\ pc' = "loop"
              ELSE /\ occupancy' = occ
                   /\ pc' = "ub"
    /\ UNCHANGED <<kernelSize, min_dist, num_probes, result, iters, locals>>

\* lines 201-204: kernel[++k] = nearest_probe; actives.push_back(k); mask
Accept(nearest_probe) ==
    LET slot == WriteSlot(k)
        o == MaskOffset(nearest_probe, occupancy.m_side)
    IN  /\ kernel' = [kernel EXCEPT ![slot] = nearest_probe]
        /\ writes' = Append(writes, slot)
        /\ k' = k + 1
        /\ actives' = Append(actives, k + 1)
        /\ IF o \notin DOMAIN occupancy.m_mask
           THEN pc' = "ub" /\ UNCHANGED occupancy
           ELSE IF occupancy.m_mask[o] # m_none
           THEN \/ pc' = "abort" /\ UNCHANGED occupancy
                \/ pc' = "loop" /\ occupancy' = [occupancy EXCEPT !.m_mask[o] = k + 1]
           ELSE pc' = "loop" /\ occupancy' = [occupancy EXCEPT !.m_mask[o] = k + 1]

\* lines 133-205: one iteration of the main loop
Iterate ==
    /\ pc = "loop"
    /\ LoopCond(actives, k, kernelSize)
    /\ iters' = iters + 1
    /\ UNCHANGED <<kernelSize, min_dist, num_probes, result, locals>>
    /\ \E pos \in 1 .. Len(actives) :
       \E offs \in [1 .. num_probes -> Offsets(min_dist)] :
       \E active \in {kernel[actives[pos]]} :
       \E ps \in {[i \in 1 .. num_probes |->
                      ProbeEntry(active, offs[i], kernel, occupancy)]} :
       \E sel \in {NearestOf(ps, min_dist)} :
             IF \E i \in 1 .. num_probes : ps[i].masked = "oob"
             THEN pc' = "ub" /\ UNCHANGED <<kernel, k, actives, occupancy, writes>>
             ELSE IF ~sel.nearest_found /\ EraseCond(actives, k)
             THEN /\ actives' = EraseAt(actives, pos)
                  /\ UNCHANGED <<kernel, k, occupancy, writes, pc>>
             ELSE IF sel.nearest_found
             THEN Accept(sel.nearest_probe)
             ELSE \E garbage \in Points : Accept(garbage)

\* line 207: return k + 1
Return ==
    /\ pc = "loop"
    /\ ~LoopCond(actives, k, kernelSize)
    /\ result' = k + 1
    /\ pc' = "done"
    /\ UNCHANGED <<kernelSize, min_dist, num_probes, kernel, k, actives,
                   occupancy, writes, iters, locals>>

Next == Seed \/ Iterate \/ Return

Spec == Init /\ [][Next]_vars

\* the loop under the scheduling of a running call: a step is taken whenever
\* one is possible
LiveSpec == Init /\ [][Next]_vars /\ WF_vars(Next)

---------------------------------------------------------------------------
(* poisson_square, with the probe loop of an iteration run by parallel tasks *)

\* the position of the generator in its state array, counted modulo GenStates
Advance(g) == (g + 1) % GenStates

\* std::vector<std::tuple<glm::tvec2<T, P>, T>> probes{ num_probes }
NoTuple == [probe |-> <<0, 0>>, masked |-> "false", dist |-> 0]

\* a selection that does not wait for the probe tasks
NoBarrier(t) == TRUE

\* the implicit barrier at the end of the parallel for: every task has finished
AllDone(t) == \A i \in DOMAIN t : t[i] = "end"

\* lines 136-144: pick an active point, allocate the probes
Pick ==
    /\ pc = "loop"
    /\ LoopCond(actives, k, kernelSize)
    /\ generator' = Advance(generator)
    /\ \E pos \in 1 .. Len(actives) : pick_it' = pos
    /\ probes' = [i \in 1 .. num_probes |-> NoTuple]
    /\ task' = [i \in 1 .. num_probes |-> "radius"]
    /\ task_gen' = [i \in 1 .. num_probes |-> 0]
    /\ pc' = "probe"
    /\ iters' = iters + 1
    /\ UNCHANGED <<kernelSize, min_dist, num_probes, kernel, k, actives,
                   occupancy, result, writes, nearest>>

\* lines 149-150: radius_dist(generator) or angle_dist(generator) reads the
\* state of the shared generator
DrawRead ==
    /\ pc = "probe"
    /\ \E i \in 1 .. num_probes :
         /\ task[i] \in {"radius", "angle"}
         /\ task_gen' = [task_gen EXCEPT ![i] = generator]
         /\ task' = [task EXCEPT ![i] = IF task[i] = "radius" THEN "radius_upd"
                                                              ELSE "angle_upd"]
    /\ UNCHANGED <<kernelSize, min_dist, num_probes, kernel, k, actives,
                   occupancy, pc, result, writes, iters, generator, pick_it,
                   probes, nearest>>

\* lines 149-150: the draw writes the advanced state back to the generator
DrawWrite ==
    /\ pc = "probe"
    /\ \E i \in 1 .. num_probes :
         /\ task[i] \in {"radius_upd", "angle_upd"}
         /\ generator' = Advance(task_gen[i])
         /\ task_gen' = [task_gen EXCEPT ![i] = 0]
         /\ task' = [task EXCEPT ![i] = IF task[i] = "radius_upd" THEN "angle"
                                                                  ELSE "tuple"]
    /\ UNCHANGED <<kernelSize, min_dist, num_probes, kernel, k, actives,
                   occupancy, pc, result, writes, iters, pick_it, probes, nearest>>

\* lines 152-173: build the probe, wrap it, test it, store probes[i]
MakeTuple ==
    /\ pc = "probe"
    /\ \E i \in 1 .. num_probes :
         /\ task[i] = "tuple"
         /\ \E off \in Offsets(min_dist) :
            \E entry \in {ProbeEntry(kernel[actives[pick_it]], off, kernel, occupancy)} :
                /\ probes' = [probes EXCEPT ![i] = entry]
                /\ pc' = IF entry.masked = "oob" THEN "ub" ELSE "probe"
         /\ task' = [task EXCEPT ![i] = "end"]
    /\ UNCHANGED <<kernelSize, min_dist, num_probes, kernel, k, actives,
                   occupancy, result, writes, iters, generator, pick_it,
                   nearest, task_gen>>

\* lines 176-193: pick nearest probe from sample set
Select ==
    /\ pc = "probe"
    /\ AllDone(task)
    /\ nearest' = NearestOf(probes, min_dist)
    /\ pc' = "selected"
    /\ UNCHANGED <<kernelSize, min_dist, num_probes, kernel, k, actives,
                   occupancy, result, writes, iters, generator, pick_it,
                   probes, task, task_gen>>

\* lines 195-204: erase the picked index, or accept the nearest probe; the
\* locals of the iteration go out of scope
Commit ==
    /\ pc = "selected"
    /\ IF ~nearest.nearest_found /\ EraseCond(actives, k)
       THEN /\ actives' = EraseAt(actives, pick_it)
            /\ pc' = "loop"
            /\ UNCHANGED <<kernel, k, occupancy, writes>>
       ELSE IF nearest.nearest_found
       THEN Accept(nearest.nearest_probe)
       ELSE \E garbage \in Points : Accept(garbage)
    /\ pick_it' = 0
    /\ probes' = <<>>
    /\ nearest' = NoNearest
    /\ task' = <<>>
    /\ task_gen' = <<>>
    /\ UNCHANGED <<kernelSize, min_dist, num_probes, result, iters, generator>>

ParNext == Seed \/ Pick \/ DrawRead \/ DrawWrite \/ MakeTuple \/ Select \/ Commit \/ Return

ParSpec == Init /\ [][ParNext]_vars

---------------------------------------------------------------------------
(* Properties *)

\* the preconditions of poisson_square: N >= 1, 0 < min_dist < 1, num_probes >= 1
Pre == kernelSize >= 1 /\ 0 < min_dist /\ min_dist < Q /\ num_probes >= 1

\* the seed has been placed
Seeded == pc # "start"

\* toroidal squared distance: the minimum over the translations t in {-1, 0, 1}^2
Tor2(p, q) ==
    LET ds == { Dot(<<p[1] - q[1] + tx * Q, p[2] - q[2] + ty * Q>>) :
                  tx \in {-1, 0, 1}, ty \in {-1, 0, 1} }
    IN  CHOOSE m \in ds : \A e \in ds : m <= e

\* min_dist is so large that no second point fits: min_dist > sqrt(1/2), the
\* largest toroidal distance from the centre
OnlySeedCanFit == 2 * min_dist * min_dist > Q * Q

\* C1: every pair of distinct accepted points kernel[i], kernel[j], i < j <= k,
\* has toroidal squared distance >= min_dist^2
C1_MinimumDistance ==
    (Pre /\ Seeded) =>
        \A i \in 0 .. k : \A j \in 0 .. k :
            i < j => Tor2(kernel[i], kernel[j]) >= min_dist * min_dist

C3_CountBound ==
    Pre => /\ \A i \in 1 .. Len(writes) : writes[i] \in 0 .. kernelSize - 1
           /\ pc = "done" =>
                /\ result = k + 1
                /\ 1 <= result /\ result <= kernelSize
                /\ \A i \in 1 .. Len(writes) : writes[i] <= k
                /\ \E i \in 1 .. Len(writes) : writes[i] = k

\* C3 witness: a call that returned with the buffer full
C3_Witness == Pre /\ pc = "done" /\ kernelSize >= 2 /\ result = kernelSize

\* C4: the call runs to completion and returns a count, and every iteration of
\* the main loop either accepts one point or removes one active index
C4_Termination ==
    /\ Pre => <>(pc = "done")
    /\ [][(Pre /\ iters' # iters) =>
            \/ k' = k + 1 /\ Len(actives') = Len(actives) + 1 /\ pc' = "loop"
            \/ k' = k /\ Len(actives') = Len(actives) - 1 /\ pc' = "loop"]_vars

\* C4 witness: a call that returned because every active point was exhausted
\* while the buffer still had room
C4_Witness ==
    Pre /\ pc = "done" /\ actives = <<>> /\ k >= 1 /\ k < kernelSize - 1

\* C5: if min_dist is so large that only the seed fits, the call returns
\* count = 1 and writes only slot 0
C5_OnlySeedFits ==
    (Pre /\ OnlySeedCanFit /\ Seeded) =>
        /\ k = 0
        /\ writes = <<0>>
        /\ pc \in {"loop", "done"}
        /\ pc = "done" => result = 1

\* C5 witness: such a call, with room for more points, has probed and returned
C5_Witness ==
    Pre /\ OnlySeedCanFit /\ pc = "done" /\ kernelSize >= 2 /\ iters >= 1

\* C6: on return kernel[0] = (0.5, 0.5); with N = 1 the main loop is never
\* entered, no probe is generated and the count is 1
C6_SeedIdentity ==
    pc = "done" =>
        /\ kernel[0] \in Points
        /\ 2 * kernel[0][1] = Q /\ 2 * kernel[0][2] = Q
        /\ kernelSize = 1 => (iters = 0 /\ result = 1)

\* C6 witness: a call with N = 1 has returned
C6_Witness == pc = "done" /\ kernelSize = 1 /\ Pre

\* C7: a call that violates the preconditions performs no partial work: the
\* buffer is not written, no grid is built and no count is returned
C7_PreconditionViolation ==
    ~Pre => /\ writes = <<>>
            /\ occupancy = NoGrid
            /\ pc # "done"

\* C8: each slot is written at most once, in increasing order 0, 1, ..., k; a
\* written slot is never rewritten; slots from the returned count on keep the
\* value they had before the call
C8_BufferFrame ==
    /\ [](/\ Len(writes) = (IF Seeded THEN k + 1 ELSE 0)
          /\ \A i \in 1 .. Len(writes) : writes[i] = i - 1
          /\ \A i \in DOMAIN kernel : i >= Len(writes) => kernel[i] = Unwritten
          /\ pc = "done" => \A i \in DOMAIN kernel : i >= result => kernel[i] = Unwritten)
    /\ [][\A i \in DOMAIN kernel : kernel[i] # Unwritten => kernel'[i] = kernel[i]]_vars

\* C8 witness: a call that returned two or more points and left slots unused
C8_Witness == pc = "done" /\ result >= 2 /\ result < kernelSize

\* C10: for every wrapped probe p, masked(p, kernel) is true if and only if
\* some accepted point is at toroidal squared distance < min_dist^2 from p
C10_MaskedIsBruteForce ==
    (Pre /\ Seeded) =>
        \A p \in Points :
            (Masked(p, kernel, occupancy) = "true")
                <=> (\E i \in 0 .. k : Tor2(p, kernel[i]) < min_dist * min_dist)

\* the four corner cells (cx +- 2, cy +- 2) of the window around cell (x, y)
Corners(x, y) ==
    { c \in (x - 2 .. x + 2) \X (y - 2 .. y + 2) : IsCorner(c[1], c[2], x, y) }

\* C11: for every probe p and every accepted point q stored in one of the four
\* corner cells of the 5x5 window around the cell of p, the squared distance
\* between p and the unwrapped image of q is >= min_dist^2
C11_CornerSkipSound ==
    (Pre /\ pc \in {"loop", "done"}) =>
        \A p \in Points :
            \A c \in Corners(CellOf(p[1], occupancy.m_side), CellOf(p[2], occupancy.m_side)) :
                \A o \in {Tiled(c[2], occupancy.m_side) * occupancy.m_side
                            + Tiled(c[1], occupancy.m_side)} :
                    (o \in DOMAIN occupancy.m_mask /\ occupancy.m_mask[o] # m_none) =>
                        \A q \in {Unwrapped(kernel[occupancy.m_mask[o]], c[1], c[2],
                                            occupancy.m_side)} :
                            Dot(<<q[1] - p[1], q[2] - p[2]>>) >= occupancy.m_dist2

\* the grid cells that hold a point index
Marked == { o \in DOMAIN occupancy.m_mask : occupancy.m_mask[o] # m_none }

NonRejected == { i \in DOMAIN probes : probes[i].dist >= 0 }

\* C13: an iteration with at least one non-rejected probe accepts a probe with
\* the smallest recorded distance among the non-rejected ones, and an
\* iteration is treated as exhaustion only when all its probes are rejected
C13_NearestProbeSelection ==
    [][pc = "selected" =>
         IF NonRejected # {}
         THEN /\ k' = k + 1
              /\ \E i \in NonRejected :
                    /\ \A j \in NonRejected : probes[i].dist <= probes[j].dist
                    /\ kernel'[k + 1] = probes[i].probe
         ELSE /\ k' = k
              /\ actives' = EraseAt(actives, pick_it)]_vars

\* the non-rejected probes that share the smallest recorded distance
Smallest ==
    { i \in NonRejected : \A j \in NonRejected : probes[i].dist <= probes[j].dist }

FirstOf(is) == CHOOSE i \in is : \A j \in is : i <= j

LastOf(is) == CHOOSE i \in is : \A j \in is : j <= i

\* C14 as stated: when several non-rejected probes of one iteration share the
\* smallest recorded distance, the probe accepted is the first of them in
\* index order
C14_TieBreakFirst ==
    [][(pc = "selected" /\ Cardinality(Smallest) >= 2 /\ k' = k + 1) =>
            kernel'[k + 1] = probes[FirstOf(Smallest)].probe]_vars

\* C14 amended: when several non-rejected probes of one iteration share the
\* smallest recorded distance, the probe accepted is the last of them in
\* index order
C14_TieBreakLast ==
    [][(pc = "selected" /\ Cardinality(Smallest) >= 2 /\ k' = k + 1) =>
            kernel'[k + 1] = probes[LastOf(Smallest)].probe]_vars

\* C14 witness: the selection has run over two different probes that tie for
\* the smallest recorded distance, and it has found a probe to accept
C14_Witness ==
    /\ pc = "selected" /\ nearest.nearest_found
    /\ Cardinality(Smallest) >= 2
    /\ probes[FirstOf(Smallest)].probe # probes[LastOf(Smallest)].probe

\* C15: for every non-rejected probe stored by a finished probe task, wrapped
\* or not, the recorded value equals the toroidal squared distance from the
\* active point to the probe and lies within [min_dist^2, 4 min_dist^2]
\* (stated for the probes that are at toroidal distance >= min_dist from the
\* active point, leaving aside those a skipped corner cell let through)
C15_RecordedDistance ==
    (Pre /\ pc \in {"probe", "selected"}) =>
        \A i \in DOMAIN probes :
            (/\ task[i] = "end" /\ probes[i].dist >= 0
             /\ Tor2(kernel[actives[pick_it]], probes[i].probe) >= min_dist * min_dist) =>
                /\ probes[i].dist = Tor2(kernel[actives[pick_it]], probes[i].probe)
                /\ min_dist * min_dist <= probes[i].dist
                /\ probes[i].dist <= 4 * min_dist * min_dist

\* C16 as stated: when an iteration found no probe to accept, the picked index
\* is removed if the active set has more than one element or k > 1; otherwise
\* the active set is left unchanged and no point is added
C16_ExhaustionRule ==
    [][(Pre /\ pc = "selected" /\ ~nearest.nearest_found) =>
            IF Len(actives) > 1 \/ k > 1
            THEN actives' = EraseAt(actives, pick_it) /\ k' = k
            ELSE actives' = actives /\ k' = k]_vars

\* C16 amended: when an iteration found no probe to accept, the picked index
\* is removed from the active set in every case, also when the seed is alone
\* and k = 0; nothing else changes and the loop condition is tested next
C16_ExhaustionErases ==
    [][(Pre /\ pc = "selected" /\ ~nearest.nearest_found) =>
            /\ actives' = EraseAt(actives, pick_it)
            /\ k' = k /\ kernel' = kernel /\ occupancy' = occupancy
            /\ pc' = "loop"]_vars

\* C16 witness: the seed was alone with k = 0, its round was exhausted and it
\* has been removed: the active set is empty although the buffer has room
C16_Witness ==
    Pre /\ pc = "loop" /\ iters >= 1 /\ k = 0 /\ actives = <<>> /\ kernelSize >= 2

\* acts2 is acts with the entry at one position taken out
OneRemoved(acts, acts2) ==
    /\ Len(acts2) = Len(acts) - 1
    /\ \E pos \in 1 .. Len(acts) :
          \A i \in 1 .. Len(acts2) : acts2[i] = IF i < pos THEN acts[i] ELSE acts[i + 1]

\* C17: every entry of the active set is an index in 0 .. k of a written
\* slot and no index occurs twice; k never decreases, and a step either
\* removes one entry or pushes the fresh index k at the back, which no entry
\* present or removed before can equal: a removed index never comes back
C17_ActiveSet ==
    /\ [](/\ \A i \in 1 .. Len(actives) :
                actives[i] \in 0 .. k /\ kernel[actives[i]] # Unwritten
          /\ \A i \in 1 .. Len(actives) : \A j \in 1 .. Len(actives) :
                actives[i] = actives[j] => i = j)
    /\ [][/\ k' >= k
          /\ \/ actives' = actives
             \/ OneRemoved(actives, actives') /\ k' = k
             \/ /\ actives' = Append(actives, k')
                /\ k' = k + 1 \/ pc = "start"
                /\ \A i \in 1 .. Len(actives) : actives[i] < k']_vars

\* C17 witness: an index was removed after an exhausted round while a later
\* index is still active
C17_Witness ==
    /\ Pre /\ pc = "loop" /\ k >= 1 /\ actives # <<>>
    /\ \E i \in 0 .. k : \A j \in 1 .. Len(actives) : actives[j] # i

\* C18: while the probe tasks of an iteration run, under every interleaving,
\* no step changes the occupancy grid, the active list, k or the kernel, a
\* step of task i changes no entry of probes other than probes[i], and the
\* selection and the accept / erase step run only with all tasks finished
C18_ProbePhaseIsolation ==
    /\ [][pc = "probe" =>
            /\ UNCHANGED <<occupancy, actives, k, kernel>>
            /\ pc' \in {"probe", "ub"} =>
                  \A i \in DOMAIN probes :
                      task'[i] = task[i] => probes'[i] = probes[i]
            /\ pc' = "selected" => \A i \in DOMAIN task : task[i] = "end"]_vars
    /\ [](pc = "selected" => \A i \in DOMAIN task : task[i] = "end")
    /\ [][(pc # "selected" /\ pc # "start") =>
            UNCHANGED <<occupancy, actives, k, kernel>>]_vars

\* C18 witness: the first probe task has stored a non-rejected probe while the
\* second is in the middle of a draw, and the selection has not started
C18_Witness ==
    /\ pc = "probe" /\ num_probes >= 2
    /\ task[1] = "end" /\ probes[1].dist > 0
    /\ task[2] = "angle_upd"
    /\ nearest = NoNearest

\* the probe tasks that have read the generator state and not yet written it back
Drawing == { i \in DOMAIN task : task[i] \in {"radius_upd", "angle_upd"} }

\* C19: no two probe tasks are inside a read-modify-write of the same
\* generator state at the same time
C19_GeneratorExclusive == Cardinality(Drawing) <= 1

====
